---- MODULE Spec2Model ----
(***************************************************************************)
(* Log-triage pipeline of analyzer.py: LogParser (line classifier and      *)
(* file reader), PatternDetector (aggregation) and AIAnalyzer (remote      *)
(* root-cause request with the rule-based fallback).                       *)
(*                                                                         *)
(* Text is modelled by TLA+ strings; a character is a string of length 1.  *)
(* Positions are 1-based; a position of 0 stands for "no match".           *)
(***************************************************************************)
EXTENDS Integers, Sequences, FiniteSets, TLC

VARIABLES
    pc,             \* where the modelled call sequence stands
    line,           \* argument of the last LogParser._parse_line call
    entry,          \* LogEntry returned by that call
    text,           \* content of the log file read by LogParser.parse_file
    entries,        \* list of LogEntry (parse_file's result, the detector's input)
    patterns,       \* PatternSummary (the detector's result, the analyzer's input)
    environ,        \* os.environ: NVIDIA_API_KEY and OPENAI_API_KEY
    key_arg,        \* the api_key argument of AIAnalyzer.__init__
    api_key,        \* AIAnalyzer.api_key
    sample_errors,  \* the sample of error entries passed to AIAnalyzer.analyze
    response,       \* how the remote side behaved in the analyze call
    posted,         \* the contexts sent with requests.post so far
    result,         \* value returned by AIAnalyzer.analyze
    fs,             \* what the file system holds at analyze_logs' filepath
    output,         \* the output argument of analyze_logs
    console,        \* what analyze_logs printed, message by message
    reports,        \* the reports generated by ReportGenerator
    calls,          \* the calls analyze_logs made, in order
    msg,            \* argument of PatternDetector._normalize_message
    normalized      \* the values _normalize_message returned, call by call

vars == <<pc, line, entry, text, entries, patterns, environ, key_arg, api_key,
          sample_errors, response, posted, result, fs, output, console, reports,
          calls, msg, normalized>>

\* Python's None.
None == [kind |-> "None"]

\* The variables of analyze_logs, not in use.
PipelineIdle ==
    /\ fs = "missing"
    /\ output = None
    /\ console = <<>>
    /\ reports = <<>>
    /\ calls = <<>>

\* The variables of a call of _normalize_message, not in use.
NormalizeIdle ==
    /\ msg = ""
    /\ normalized = <<>>

-----------------------------------------------------------------------------
(* Characters and character classes (re's \d, \w, \s; str.upper/lower).    *)

\* The character at position i; the empty string outside the string.
Ch(s, i) == IF 1 <= i /\ i <= Len(s) THEN SubSeq(s, i, i) ELSE ""

DigitChars == {"0", "1", "2", "3", "4", "5", "6", "7", "8", "9"}

LowerAlpha == "abcdefghijklmnopqrstuvwxyz"

UpperAlpha == "ABCDEFGHIJKLMNOPQRSTUVWXYZ"

LowerChars == {Ch(LowerAlpha, i) : i \in 1..26}

UpperChars == {Ch(UpperAlpha, i) : i \in 1..26}

\* \w: letters, digits and the underscore.
WordChars == DigitChars \cup LowerChars \cup UpperChars \cup {"_"}

\* \s, and what str.strip() removes.
SpaceChars == {" ", "\t", "\n", "\r", "\f"}

\* [0-9a-f]
HexChars == DigitChars \cup {"a", "b", "c", "d", "e", "f"}

AlphaIndex(alpha, c) == CHOOSE i \in 1..26 : Ch(alpha, i) = c

UpperCh(c) == IF c \in LowerChars THEN Ch(UpperAlpha, AlphaIndex(LowerAlpha, c)) ELSE c

LowerCh(c) == IF c \in UpperChars THEN Ch(LowerAlpha, AlphaIndex(UpperAlpha, c)) ELSE c

RECURSIVE Concat(_)
\* "".join(pieces), by halves.
Concat(pieces) ==
    IF Len(pieces) = 0 THEN ""
    ELSE IF Len(pieces) = 1 THEN pieces[1]
    ELSE Concat(SubSeq(pieces, 1, Len(pieces) \div 2))
         \o Concat(SubSeq(pieces, Len(pieces) \div 2 + 1, Len(pieces)))

\* str.upper()
StrUpper(s) == Concat([i \in 1..Len(s) |-> UpperCh(Ch(s, i))])

\* str.lower()
StrLower(s) == Concat([i \in 1..Len(s) |-> LowerCh(Ch(s, i))])

\* Python's `needle in hay` on str.
StrContains(hay, needle) ==
    \E i \in 1..(Len(hay) - Len(needle) + 1) : SubSeq(hay, i, i + Len(needle) - 1) = needle

\* Python's s[:n].
Prefix(s, n) == SubSeq(s, 1, IF Len(s) < n THEN Len(s) ELSE n)

\* The least element of a non-empty set of integers.
Least(S) == CHOOSE a \in S : \A b \in S : a <= b

\* Length of the longest run of characters of class cls starting at position p:
\* the run stops at the first position that is past the end or not in cls.
Run(s, p, cls) ==
    IF p > Len(s) THEN 0
    ELSE Least({q \in p..(Len(s) + 1) : q > Len(s) \/ Ch(s, q) \notin cls}) - p

\* str.lstrip()
LStrip(s) == SubSeq(s, 1 + Run(s, 1, SpaceChars), Len(s))

\* str.rstrip(): the string up to its last character that is not whitespace.
RStrip(s) ==
    LET keep == {i \in 1..Len(s) : Ch(s, i) \notin SpaceChars}
    IN  IF keep = {} THEN "" ELSE SubSeq(s, 1, CHOOSE i \in keep : \A j \in keep : j <= i)

\* str.strip(): leading and trailing whitespace removed.
Strip(s) == RStrip(LStrip(s))

-----------------------------------------------------------------------------
(* Regular-expression pieces. Each takes the position p where it starts    *)
(* (0: an earlier piece failed) and gives the position after its match, or *)
(* 0 when it does not match.                                               *)

\* A literal character c.
Lit(s, p, c) == IF p # 0 /\ p <= Len(s) /\ Ch(s, p) = c THEN p + 1 ELSE 0

\* cls{n}: exactly n characters of the class.
Exactly(s, p, cls, n) ==
    IF p # 0 /\ p + n - 1 <= Len(s) /\ (\A k \in p..(p + n - 1) : Ch(s, k) \in cls)
    THEN p + n ELSE 0

\* cls+ followed by a piece that cannot start with a character of cls: the
\* greedy match is the whole run, and no shorter match can succeed.
Plus(s, p, cls) ==
    IF p # 0 /\ Run(s, p, cls) >= 1 THEN p + Run(s, p, cls) ELSE 0

\* \d{4}-\d{2}-\d{2}\s+\d{2}:\d{2}:\d{2}
IsoStamp(s, p) ==
    LET d1 == Lit(s, Exactly(s, p, DigitChars, 4), "-")
        d2 == Lit(s, Exactly(s, d1, DigitChars, 2), "-")
        d3 == Plus(s, Exactly(s, d2, DigitChars, 2), SpaceChars)
        t1 == Lit(s, Exactly(s, d3, DigitChars, 2), ":")
        t2 == Lit(s, Exactly(s, t1, DigitChars, 2), ":")
    IN  Exactly(s, t2, DigitChars, 2)

\* \w{3}\s+\d{1,2}\s+\d{2}:\d{2}:\d{2} with \d{1,2} taking k digits.
SyslogStamp(s, p, k) ==
    LET m1 == Plus(s, Exactly(s, p, WordChars, 3), SpaceChars)
        d1 == Plus(s, Exactly(s, m1, DigitChars, k), SpaceChars)
        t1 == Lit(s, Exactly(s, d1, DigitChars, 2), ":")
        t2 == Lit(s, Exactly(s, t1, DigitChars, 2), ":")
    IN  Exactly(s, t2, DigitChars, 2)

\* Number of characters from position p up to the next "\n" or the end.
RunToNewline(s, p) ==
    IF p > Len(s) THEN 0
    ELSE Least({q \in p..(Len(s) + 1) : q > Len(s) \/ Ch(s, q) = "\n"}) - p

\* The last position of the match of a final (.+) that starts at p: "." matches
\* everything but a newline, and the group is greedy.
DotEnd(s, p) == p + RunToNewline(s, p) - 1

\* \s+(.+) at the end of a pattern: \s+ is greedy and gives characters back
\* until (.+) has one character that is not a newline to match. The result
\* is the position where the group starts, 0 when there is none.
SpacesThenRest(s, p) ==
    LET n  == IF p = 0 THEN 0 ELSE Run(s, p, SpaceChars)
        ks == {k \in 1..n : p + k <= Len(s) /\ Ch(s, p + k) # "\n"}
    IN  IF ks = {} THEN 0 ELSE p + (CHOOSE k \in ks : \A j \in ks : j <= k)

NoMatch == [ok |-> FALSE, groups |-> <<>>]

Match(g) == [ok |-> TRUE, groups |-> g]

\* (\d{4}-\d{2}-\d{2}\s+\d{2}:\d{2}:\d{2})\s+(\w+):\s+(.+)
Pattern1(s) ==
    LET e1 == IsoStamp(s, 1)
        b2 == Plus(s, e1, SpaceChars)
        e2 == Plus(s, b2, WordChars)
        b3 == SpacesThenRest(s, Lit(s, e2, ":"))
    IN  IF b3 = 0 THEN NoMatch
        ELSE Match(<<SubSeq(s, 1, e1 - 1), SubSeq(s, b2, e2 - 1),
                     SubSeq(s, b3, DotEnd(s, b3))>>)

Pattern2With(s, k) ==
    LET e1 == SyslogStamp(s, 1, k)
        b2 == Plus(s, e1, SpaceChars)
        e2 == Plus(s, b2, WordChars)
        b3 == SpacesThenRest(s, Lit(s, e2, ":"))
    IN  IF b3 = 0 THEN NoMatch
        ELSE Match(<<SubSeq(s, 1, e1 - 1), SubSeq(s, b2, e2 - 1),
                     SubSeq(s, b3, DotEnd(s, b3))>>)

\* (\w{3}\s+\d{1,2}\s+\d{2}:\d{2}:\d{2})\s+(\w+):\s+(.+)
\* \d{1,2} is greedy: two digits are tried before one.
Pattern2(s) == IF Pattern2With(s, 2).ok THEN Pattern2With(s, 2) ELSE Pattern2With(s, 1)

\* \[(\d{4}-\d{2}-\d{2}\s+\d{2}:\d{2}:\d{2})\]\s+(\w+)\s+(.+)
Pattern3(s) ==
    LET e1 == IsoStamp(s, Lit(s, 1, "["))
        b2 == Plus(s, Lit(s, e1, "]"), SpaceChars)
        e2 == Plus(s, b2, WordChars)
        b3 == SpacesThenRest(s, e2)
    IN  IF b3 = 0 THEN NoMatch
        ELSE Match(<<SubSeq(s, 2, e1 - 1), SubSeq(s, b2, e2 - 1),
                     SubSeq(s, b3, DotEnd(s, b3))>>)

\* \[?(\w+)\]?:\s+(.+) with \[? taking `open` characters and \]? taking
\* `close` characters (each 0 or 1).
Pattern4With(s, open, close) ==
    LET b1 == IF open = 1 THEN Lit(s, 1, "[") ELSE 1
        e1 == Plus(s, b1, WordChars)
        c1 == IF close = 1 THEN Lit(s, e1, "]") ELSE e1
        b2 == SpacesThenRest(s, Lit(s, c1, ":"))
    IN  IF b2 = 0 THEN NoMatch
        ELSE Match(<<SubSeq(s, b1, e1 - 1), SubSeq(s, b2, DotEnd(s, b2))>>)

\* Mutant of Pattern4: a closed vocabulary of levels.
Pattern4_ClosedLevels(s) ==
    IF Pattern4With(s, 0, 0).ok
       /\ StrUpper(Pattern4With(s, 0, 0).groups[1])
              \in {"DEBUG", "INFO", "WARN", "WARNING", "ERROR", "CRITICAL", "FATAL"}
    THEN Pattern4With(s, 0, 0) ELSE NoMatch

\* \[?(\w+)\]?:\s+(.+)
\* Both optional brackets are greedy: present is tried before absent, the
\* earlier one varying last.
Pattern4(s) ==
    IF Pattern4With(s, 1, 1).ok THEN Pattern4With(s, 1, 1)
    ELSE IF Pattern4With(s, 1, 0).ok THEN Pattern4With(s, 1, 0)
    ELSE IF Pattern4With(s, 0, 1).ok THEN Pattern4With(s, 0, 1)
    ELSE Pattern4With(s, 0, 0)

\* LogParser.PATTERNS, each applied with pattern.match (anchored at the start).
PATTERNS(s) == <<Pattern1(s), Pattern2(s), Pattern3(s), Pattern4(s)>>

LogEntry(timestamp, level, message, raw) ==
    [kind |-> "LogEntry", timestamp |-> timestamp, level |-> level, message |-> message, raw |-> raw]

RECURSIVE ParseLoop_LevelVerbatim(_, _, _)
\* Mutant of ParseLoop: the level is stored as written, not upper-cased.
ParseLoop_LevelVerbatim(ms, s, i) ==
    IF i > Len(ms) THEN LogEntry("unknown", "INFO", s, s)
    ELSE LET m == ms[i]
         IN  IF m.ok /\ Len(m.groups) = 3
             THEN LogEntry(m.groups[1], m.groups[2], m.groups[3], s)
             ELSE IF m.ok /\ Len(m.groups) = 2
             THEN LogEntry("unknown", m.groups[1], m.groups[2], s)
             ELSE ParseLoop_LevelVerbatim(ms, s, i + 1)

RECURSIVE ParseLoop_NoDefault(_, _, _)
\* Mutant of ParseLoop: the function ends without the final return, so a
\* line no pattern matches gives None.
ParseLoop_NoDefault(ms, s, i) ==
    IF i > Len(ms) THEN None
    ELSE LET m == ms[i]
         IN  IF m.ok /\ Len(m.groups) = 3
             THEN LogEntry(m.groups[1], StrUpper(m.groups[2]), m.groups[3], s)
             ELSE IF m.ok /\ Len(m.groups) = 2
             THEN LogEntry("unknown", StrUpper(m.groups[1]), m.groups[2], s)
             ELSE ParseLoop_NoDefault(ms, s, i + 1)

RECURSIVE ParseLoop(_, _, _)
\* The loop of _parse_line over the matches ms of the patterns, from
\* pattern i on: a pattern that matches with three
\* groups gives (timestamp, level, message), with two groups (level, message)
\* and the timestamp "unknown", with any other number the loop goes on; the
\* level is upper-cased. A line no pattern settles becomes an INFO entry whose
\* message is the whole line.
ParseLoop(ms, s, i) ==
    IF i > Len(ms) THEN LogEntry("unknown", "INFO", s, s)
    ELSE LET m == ms[i]
         IN  IF m.ok /\ Len(m.groups) = 3
             THEN LogEntry(m.groups[1], StrUpper(m.groups[2]), m.groups[3], s)
             ELSE IF m.ok /\ Len(m.groups) = 2
             THEN LogEntry("unknown", StrUpper(m.groups[1]), m.groups[2], s)
             ELSE ParseLoop(ms, s, i + 1)

\* LogParser._parse_line
ParseLineOf(s) == ParseLoop(PATTERNS(s), s, 1)

\* open(..., 'r') reads with universal newlines: "\r\n" and "\r" become "\n"
\* (a "\r" becomes "\n", and the "\n" right after a "\r" is dropped).
Universal(t) ==
    Concat([i \in 1..Len(t) |->
               IF Ch(t, i) = "\r" THEN "\n"
               ELSE IF Ch(t, i) = "\n" /\ i > 1 /\ Ch(t, i - 1) = "\r" THEN ""
               ELSE Ch(t, i)])

RECURSIVE LinesOf(_)
\* Iteration over the file object: each line up to and including its "\n";
\* what follows the last "\n", when not empty, is the last line.
LinesOf(t) ==
    IF t = "" THEN <<>>
    ELSE LET n == RunToNewline(t, 1)
         IN  IF n < Len(t)
             THEN <<SubSeq(t, 1, n + 1)>> \o LinesOf(SubSeq(t, n + 2, Len(t)))
             ELSE <<t>>

RECURSIVE ParseLines_RStrip(_)
\* Mutant of ParseLines: only the trailing whitespace of a line is removed.
ParseLines_RStrip(ls) ==
    IF ls = <<>> THEN <<>>
    ELSE IF RStrip(Head(ls)) = "" THEN ParseLines_RStrip(Tail(ls))
         ELSE <<ParseLineOf(RStrip(Head(ls)))>> \o ParseLines_RStrip(Tail(ls))

RECURSIVE ParseLines(_)
\* The loop of parse_file: strip the line, skip it when empty, else append
\* the entry _parse_line returns (a LogEntry is always truthy).
ParseLines(ls) ==
    IF ls = <<>> THEN <<>>
    ELSE IF Strip(Head(ls)) = "" THEN ParseLines(Tail(ls))
         ELSE <<ParseLineOf(Strip(Head(ls)))>> \o ParseLines(Tail(ls))

\* LogParser.parse_file on a file of content t.
ParseFileOf(t) == ParseLines(LinesOf(Universal(t)))

-----------------------------------------------------------------------------
(* PatternDetector.                                                        *)

\* Program constants of the detector.
TopErrorsLimit == 5

NormalizeLimit == 100

HexMinLen == 8

TimelineLimit == 20

TimelineMessageLimit == 80

CascadeMinErrors == 3

CascadeBucketSize == 10

CascadeLimit == 5

ErrorLevels == {"ERROR", "CRITICAL", "FATAL"}

\* Mutant of IsError: the level is compared without regard to case.
IsError_AnyCase(e) == StrUpper(e.level) \in ErrorLevels

IsError(e) == e.level \in ErrorLevels

\* Mutant of ErrorsOf: the entries of every level are kept.
ErrorsOf_Unfiltered(es) == es

\* [e for e in entries if e.level in ['ERROR', 'CRITICAL', 'FATAL']]
ErrorsOf(es) == SelectSeq(es, IsError)

\* \b at position p: exactly one of the characters before and at p is a
\* word character (the outside of the string counts as a non-word).
Boundary(s, p) ==
    ((p > 1 /\ Ch(s, p - 1) \in WordChars) # (p <= Len(s) /\ Ch(s, p) \in WordChars))

\* \b<cls>{low,}\b matches at position p, cls a class of word characters:
\* the match is the whole run of cls characters (a shorter one ends between
\* two word characters, where \b fails), with a word boundary on both sides.
RunMatchesAt(s, p, cls, low) ==
    /\ Boundary(s, p)
    /\ Run(s, p, cls) >= low
    /\ Boundary(s, p + Run(s, p, cls))

RECURSIVE ReSubRun(_, _, _, _, _)
\* re.sub(r'\b<cls>{low,}\b', repl, s) from position p on: the text up to the
\* leftmost match at or after p is kept, the match is replaced, and the scan
\* goes on behind it.
ReSubRun(s, p, cls, low, repl) ==
    LET starts == {q \in p..Len(s) : RunMatchesAt(s, q, cls, low)}
    IN  IF starts = {} THEN SubSeq(s, p, Len(s))
        ELSE SubSeq(s, p, Least(starts) - 1) \o repl
             \o ReSubRun(s, Least(starts) + Run(s, Least(starts), cls), cls, low, repl)

\* Mutant of NormalizeMessage: a hex run is replaced by '0'.
NormalizeMessage_ZeroId(message) ==
    Prefix(ReSubRun(ReSubRun(message, 1, DigitChars, 1, "N"), 1, HexChars, HexMinLen, "0"),
           NormalizeLimit)

\* Mutant of NormalizeMessage: the digit runs are left as they are.
NormalizeMessage_HexOnly(message) ==
    Prefix(ReSubRun(message, 1, HexChars, HexMinLen, "ID"), NormalizeLimit)

\* PatternDetector._normalize_message
NormalizeMessage(message) ==
    Prefix(ReSubRun(ReSubRun(message, 1, DigitChars, 1, "N"), 1, HexChars, HexMinLen, "ID"),
           NormalizeLimit)

\* Mutant of CounterAdd: a key that was counted before is not counted again.
CounterAdd_NoIncrement(c, k) ==
    IF \E i \in 1..Len(c) : c[i][1] = k THEN c ELSE Append(c, <<k, 1>>)

\* Counter: the pairs <<key, count>> in the order the keys were first counted.
CounterAdd(c, k) ==
    IF \E i \in 1..Len(c) : c[i][1] = k
    THEN [i \in 1..Len(c) |-> IF c[i][1] = k THEN <<k, c[i][2] + 1>> ELSE c[i]]
    ELSE Append(c, <<k, 1>>)

RECURSIVE CounterFrom(_, _)
\* Counter(keys), started from counter c.
CounterFrom(c, keys) ==
    IF keys = <<>> THEN c ELSE CounterFrom(CounterAdd(c, Head(keys)), Tail(keys))

Counter(keys) == CounterFrom(<<>>, keys)

\* dict(counter)
DictOf(c) ==
    [k \in {c[i][1] : i \in 1..Len(c)} |-> (c[CHOOSE i \in 1..Len(c) : c[i][1] = k])[2]]

\* Mutant of InsertByCount: the pair goes before the pairs of its own count.
InsertByCount_Unstable(sorted, pair) ==
    LET n == Cardinality({i \in 1..Len(sorted) : sorted[i][2] > pair[2]})
    IN  SubSeq(sorted, 1, n) \o <<pair>> \o SubSeq(sorted, n + 1, Len(sorted))

\* One step of a stable sort by count, descending: the pair goes behind
\* every pair whose count is at least its own.
InsertByCount(sorted, pair) ==
    LET n == Cardinality({i \in 1..Len(sorted) : sorted[i][2] >= pair[2]})
    IN  SubSeq(sorted, 1, n) \o <<pair>> \o SubSeq(sorted, n + 1, Len(sorted))

RECURSIVE SortByCountFrom(_, _)
SortByCountFrom(sorted, c) ==
    IF c = <<>> THEN sorted ELSE SortByCountFrom(InsertByCount(sorted, Head(c)), Tail(c))

\* Counter.most_common(n): sorted(items, key=count, reverse=True)[:n], a
\* stable sort, so equal counts stay in first-counted order.
MostCommon(c, n) == SubSeq(SortByCountFrom(<<>>, c), 1, IF Len(c) < n THEN Len(c) ELSE n)

\* Mutant of BuildTimeline: every error gets an item.
BuildTimeline_Unbounded(errors) ==
    [i \in 1..Len(errors) |->
        [time |-> errors[i].timestamp,
         message |-> Prefix(errors[i].message, TimelineMessageLimit)]]

\* PatternDetector._build_timeline
BuildTimeline(errors) ==
    [i \in 1..(IF Len(errors) < TimelineLimit THEN Len(errors) ELSE TimelineLimit) |->
        [time |-> errors[i].timestamp,
         message |-> Prefix(errors[i].message, TimelineMessageLimit)]]

\* Mutant of CascadeRecord: last is taken from the bucket's first entry.
CascadeRecord_FirstOnly(bucket) ==
    [count |-> Len(bucket), first |-> bucket[1].timestamp, last |-> bucket[1].timestamp]

CascadeRecord(bucket) ==
    [count |-> Len(bucket), first |-> bucket[1].timestamp,
     last |-> bucket[Len(bucket)].timestamp]

\* Mutant of CascadeStep: a bucket is closed one entry earlier.
CascadeStep_ShortBucket(st, error, i) ==
    IF i = 1 THEN [cascades |-> st.cascades, current |-> <<error>>]
    ELSE IF Len(st.current) < CascadeBucketSize - 1
         THEN [cascades |-> st.cascades, current |-> Append(st.current, error)]
         ELSE [cascades |-> IF Len(st.current) >= CascadeMinErrors
                            THEN Append(st.cascades, CascadeRecord(st.current))
                            ELSE st.cascades,
               current |-> <<error>>]

\* One iteration of the loop of _find_cascades, for errors[i - 1] (i from 1).
CascadeStep(st, error, i) ==
    IF i = 1 THEN [cascades |-> st.cascades, current |-> <<error>>]
    ELSE IF Len(st.current) < CascadeBucketSize
         THEN [cascades |-> st.cascades, current |-> Append(st.current, error)]
         ELSE [cascades |-> IF Len(st.current) >= CascadeMinErrors
                            THEN Append(st.cascades, CascadeRecord(st.current))
                            ELSE st.cascades,
               current |-> <<error>>]

RECURSIVE CascadeLoop(_, _, _)
CascadeLoop(st, errors, i) ==
    IF i > Len(errors) THEN st
    ELSE CascadeLoop(CascadeStep(st, errors[i], i), errors, i + 1)

\* Mutant of FindCascades: the bucket in progress at the end of the loop is
\* emitted as well when it has 3 entries or more.
FindCascades_Flush(errors) ==
    IF Len(errors) < CascadeMinErrors THEN <<>>
    ELSE LET st == CascadeLoop([cascades |-> <<>>, current |-> <<>>], errors, 1)
         IN  Prefix(IF Len(st.current) >= CascadeMinErrors
                    THEN Append(st.cascades, CascadeRecord(st.current))
                    ELSE st.cascades,
                    CascadeLimit)

\* Mutant of FindCascades: the last 5 of the emitted records are returned.
FindCascades_LastFive(errors) ==
    IF Len(errors) < CascadeMinErrors THEN <<>>
    ELSE LET emitted == CascadeLoop([cascades |-> <<>>, current |-> <<>>], errors, 1).cascades
         IN  SubSeq(emitted, IF Len(emitted) > CascadeLimit
                             THEN Len(emitted) - CascadeLimit + 1 ELSE 1, Len(emitted))

\* PatternDetector._find_cascades
FindCascades(errors) ==
    IF Len(errors) < CascadeMinErrors THEN <<>>
    ELSE Prefix(CascadeLoop([cascades |-> <<>>, current |-> <<>>], errors, 1).cascades,
                CascadeLimit)

\* The normalized messages of the errors, in order.
Signatures(errors) == [i \in 1..Len(errors) |-> NormalizeMessage(errors[i].message)]

\* Mutant of DetectorAnalyze: entries of every level are taken as errors.
DetectorAnalyze_AllLevels(es) ==
    LET levels         == Counter([i \in 1..Len(es) |-> es[i].level])
        error_messages == Counter(Signatures(es))
    IN  [total_entries |-> Len(es),
         level_counts  |-> DictOf(levels),
         error_count   |-> Len(es),
         unique_errors |-> Len(error_messages),
         top_errors    |-> MostCommon(error_messages, TopErrorsLimit),
         timeline      |-> BuildTimeline(es),
         cascades      |-> FindCascades(es)]

\* PatternDetector.analyze
DetectorAnalyze(es) ==
    LET levels         == Counter([i \in 1..Len(es) |-> es[i].level])
        errors         == ErrorsOf(es)
        error_messages == Counter(Signatures(errors))
    IN  [total_entries |-> Len(es),
         level_counts  |-> DictOf(levels),
         error_count   |-> Len(errors),
         unique_errors |-> Len(error_messages),
         top_errors    |-> MostCommon(error_messages, TopErrorsLimit),
         timeline      |-> BuildTimeline(errors),
         cascades      |-> FindCascades(errors)]

-----------------------------------------------------------------------------
(* AIAnalyzer. Python values that may be None or of several types are      *)
(* tagged records: None, Str(s), and the JSON values of a response body.   *)

Str(s) == [kind |-> "str", val |-> s]

\* Truth value of an optional string: None and "" are false.
Truthy(v) == v.kind = "str" /\ v.val # ""

\* Python's `a or b`.
Or(a, b) == IF Truthy(a) THEN a ELSE b

\* Mutant of InitApiKey: the environment is read only for NVIDIA_API_KEY.
InitApiKey_NvidiaOnly(arg, env) == Or(arg, env.NVIDIA_API_KEY)

\* AIAnalyzer.__init__:
\* api_key or os.getenv('NVIDIA_API_KEY') or os.getenv('OPENAI_API_KEY')
InitApiKey(arg, env) == Or(Or(arg, env.NVIDIA_API_KEY), env.OPENAI_API_KEY)

RECURSIVE TopErrorLines(_)
TopErrorLines(top) ==
    IF top = <<>> THEN ""
    ELSE "- (" \o ToString(Head(top)[2]) \o "x) " \o Head(top)[1] \o "\n"
         \o TopErrorLines(Tail(top))

RECURSIVE SampleLines(_)
SampleLines(es) ==
    IF es = <<>> THEN ""
    ELSE "[" \o Head(es).timestamp \o "] " \o Head(es).level \o ": "
         \o Prefix(Head(es).message, 100) \o "\n" \o SampleLines(Tail(es))

\* AIAnalyzer._prepare_context
PrepareContext(p, sample) ==
    "Total log entries: " \o ToString(p.total_entries) \o "\n"
    \o "Errors found: " \o ToString(p.error_count) \o "\n"
    \o "Unique error patterns: " \o ToString(p.unique_errors) \o "\n\n"
    \o "Top error messages:\n"
    \o TopErrorLines(Prefix(p.top_errors, 3))
    \o "\nSample error logs:\n"
    \o SampleLines(Prefix(sample, 5))

\* The branches of _fallback_analysis.
HealthyText ==
    "ROOT CAUSE: " \o "No errors detected in logs. System appears healthy.\n\n"
    \o "FIXES:\n1. No action required\n2. Continue monitoring\n3. Review info/warning logs for potential issues\n\n"
    \o "PREVENTION: Maintain current monitoring and alerting"

ConnectivityText ==
    "ROOT CAUSE: " \o "Network connectivity or service connection failure\n\n"
    \o "FIXES:\n"
    \o "1. Check network connectivity between services\n"
    \o "2. Verify target service is running and accepting connections\n"
    \o "3. Review firewall rules and security groups\n\n"
    \o "PREVENTION: Implement health checks, connection pooling, and retry logic with exponential backoff"

TimeoutText ==
    "ROOT CAUSE: " \o "Service timeout - operations taking too long\n\n"
    \o "FIXES:\n"
    \o "1. Increase timeout values in configuration\n"
    \o "2. Optimize slow database queries or API calls\n"
    \o "3. Add caching layer for frequently accessed data\n\n"
    \o "PREVENTION: Set up performance monitoring and alerts for slow operations"

MemoryText ==
    "ROOT CAUSE: " \o "Memory exhaustion - possible memory leak\n\n"
    \o "FIXES:\n"
    \o "1. Increase memory allocation for the service\n"
    \o "2. Review code for memory leaks\n"
    \o "3. Restart affected services\n\n"
    \o "PREVENTION: Add memory monitoring, implement proper cleanup, and consider memory profiling"

PermissionText ==
    "ROOT CAUSE: " \o "Permission or authentication failure\n\n"
    \o "FIXES:\n"
    \o "1. Review and update service permissions\n"
    \o "2. Verify credentials are correct and not expired\n"
    \o "3. Check IAM roles and policies\n\n"
    \o "PREVENTION: Implement proper credential rotation and access control management"

GenericText(p) ==
    "ROOT CAUSE: " \o "Multiple errors detected: " \o ToString(p.error_count) \o " total, "
    \o ToString(p.unique_errors) \o " unique patterns\n\n"
    \o "FIXES:\n"
    \o "1. Review the top error messages listed above\n"
    \o "2. Check service logs around the error timestamps\n"
    \o "3. Correlate with recent deployments or configuration changes\n\n"
    \o "PREVENTION: Enhance logging, add monitoring alerts, and implement gradual rollouts"

\* patterns['top_errors'][0][0] if patterns['top_errors'] else ""
TopError(p) == IF p.top_errors # <<>> THEN p.top_errors[1][1] ELSE ""

\* Mutant of FallbackAnalysis: the timeout rule is tried before the
\* connectivity rule.
FallbackAnalysis_TimeoutFirst(p) ==
    LET top == StrLower(TopError(p))
    IN  IF p.error_count = 0 THEN HealthyText
        ELSE IF StrContains(top, "timeout") THEN TimeoutText
        ELSE IF StrContains(top, "connection") \/ StrContains(top, "refused")
        THEN ConnectivityText
        ELSE IF StrContains(top, "memory") \/ StrContains(top, "oom") THEN MemoryText
        ELSE IF StrContains(top, "permission") \/ StrContains(top, "denied")
        THEN PermissionText
        ELSE GenericText(p)

\* Mutant of FallbackAnalysis: the healthy branch is taken only when there is
\* no top error either.
FallbackAnalysis_TopErrorsFirst(p) ==
    LET top == StrLower(TopError(p))
    IN  IF p.error_count = 0 /\ p.top_errors = <<>> THEN HealthyText
        ELSE IF StrContains(top, "connection") \/ StrContains(top, "refused")
        THEN ConnectivityText
        ELSE IF StrContains(top, "timeout") THEN TimeoutText
        ELSE IF StrContains(top, "memory") \/ StrContains(top, "oom") THEN MemoryText
        ELSE IF StrContains(top, "permission") \/ StrContains(top, "denied")
        THEN PermissionText
        ELSE GenericText(p)

\* AIAnalyzer._fallback_analysis (it does not read sample_errors)
FallbackAnalysis(p) ==
    LET top == StrLower(TopError(p))
    IN  IF p.error_count = 0 THEN HealthyText
        ELSE IF StrContains(top, "connection") \/ StrContains(top, "refused")
        THEN ConnectivityText
        ELSE IF StrContains(top, "timeout") THEN TimeoutText
        ELSE IF StrContains(top, "memory") \/ StrContains(top, "oom") THEN MemoryText
        ELSE IF StrContains(top, "permission") \/ StrContains(top, "denied")
        THEN PermissionText
        ELSE GenericText(p)

\* An exception raised while a Python expression is evaluated.
Raised == [kind |-> "raise"]

\* response.json(): raises when the body is not JSON.
JsonOf(body) == IF body.kind = "invalid" THEN Raised ELSE body

\* v[key] for a str key: the value of a dict that has the key; KeyError for a
\* dict without it, TypeError for every other JSON value.
GetKey(v, key) ==
    IF v.kind = "obj" /\ key \in DOMAIN v.val THEN v.val[key] ELSE Raised

\* v[0]: the first item of a non-empty list, the first character of a
\* non-empty str; IndexError, KeyError or TypeError otherwise.
GetFirst(v) ==
    IF v.kind = "arr" /\ v.val # <<>> THEN v.val[1]
    ELSE IF v.kind = "str" /\ v.val # "" THEN Str(Ch(v.val, 1))
    ELSE Raised

\* result['choices'][0]['message']['content']
ContentOf(body) ==
    GetKey(GetKey(GetFirst(GetKey(JsonOf(body), "choices")), "message"), "content")

StatusOk == 200

\* Whether analyze reaches requests.post: a key is configured and
\* `import requests` succeeds.
Posts(key, r) == Truthy(key) /\ r.kind # "import_error"

\* Mutant of AnalyzeOf: a non-200 status is reported instead of analysed.
AnalyzeOf_StatusReported(key, p, r) ==
    IF ~Truthy(key) THEN Str(FallbackAnalysis(p))
    ELSE IF r.kind # "http" THEN Str(FallbackAnalysis(p))
    ELSE IF r.status = StatusOk
         THEN IF ContentOf(r.body).kind = "raise" THEN Str(FallbackAnalysis(p))
              ELSE ContentOf(r.body)
         ELSE Str("API call failed (" \o ToString(r.status) \o ")")

\* AIAnalyzer.analyze: the value returned when the remote side behaves as r.
AnalyzeOf(key, p, r) ==
    IF ~Truthy(key) THEN Str(FallbackAnalysis(p))
    ELSE IF r.kind # "http" THEN Str(FallbackAnalysis(p))
    ELSE IF r.status = StatusOk
         THEN IF ContentOf(r.body).kind = "raise" THEN Str(FallbackAnalysis(p))
              ELSE ContentOf(r.body)
         ELSE Str(FallbackAnalysis(p))

-----------------------------------------------------------------------------
(* Inputs of the analyzer.                                                 *)

\* Values of an environment variable: unset, empty, set.
EnvValues == {None, Str(""), Str("nvapi-env")}

\* Values of the api_key argument.
ArgValues == {None, Str(""), Str("nvapi-arg")}

TopSignatures ==
    {"Connection refused to database", "connection timeout after Ns",
     "Request TIMEOUT talking to cache", "Java heap: out of Memory",
     "worker killed (OOM)", "Permission denied for /var/log",
     "Access DENIED, memory quota hit", "Disk full on /dev/sda1"}

LowerSignatures == {"Connection reset by peer", "Disk full on /dev/sda1"}

TopLists ==
    {<<>>} \cup {<<<<a, 3>>>> : a \in TopSignatures}
           \cup {<<<<ab[1], 3>>, <<ab[2], 2>>>> :
                   ab \in {x \in TopSignatures \X LowerSignatures : x[1] # x[2]}}

\* Summaries as a caller may pass them (the fields need not be consistent
\* with one another, as in tests/test_main.py).
Summaries ==
    {[total_entries |-> 10, error_count |-> n, unique_errors |-> Len(t), top_errors |-> t,
      timeline |-> <<>>, cascades |-> <<>>] : n \in {0, 5}, t \in TopLists}

Samples ==
    {<<>>, <<LogEntry("14:00:00", "ERROR", "Connection refused to database", "raw")>>}

Arr(items) == [kind |-> "arr", val |-> items]

Obj(fields) == [kind |-> "obj", val |-> fields]

Completion(content) ==
    Obj([choices |-> Arr(<<Obj([message |-> Obj([role |-> Str("assistant"),
                                                 content |-> content])])>>)])

\* How the remote side may behave: `import requests` fails, requests.post
\* raises (DNS, connection, timeout), or a response arrives with a status and
\* a body (a JSON value, or text that is not JSON).
RemoteOutcomes ==
    <<[kind |-> "import_error", status |-> 0, body |-> None],
      [kind |-> "post_raises", status |-> 0, body |-> None],
      [kind |-> "http", status |-> 401, body |-> Obj([error |-> Str("unauthorized")])],
      [kind |-> "http", status |-> 500, body |-> [kind |-> "invalid"]],
      [kind |-> "http", status |-> 500,
       body |-> Completion(Str("ROOT CAUSE: x\nFIXES:\n1. y\nPREVENTION: z"))],
      [kind |-> "http", status |-> 200, body |-> [kind |-> "invalid"]],
      [kind |-> "http", status |-> 200, body |-> None],
      [kind |-> "http", status |-> 200, body |-> Str("ok")],
      [kind |-> "http", status |-> 200, body |-> Arr(<<>>)],
      [kind |-> "http", status |-> 200, body |-> Obj([error |-> Str("overloaded")])],
      [kind |-> "http", status |-> 200, body |-> Obj([choices |-> Arr(<<>>)])],
      [kind |-> "http", status |-> 200, body |-> Obj([choices |-> Str("text")])],
      [kind |-> "http", status |-> 200,
       body |-> Obj([choices |-> Arr(<<Obj([index |-> Str("0")])>>)])],
      [kind |-> "http", status |-> 200,
       body |-> Obj([choices |-> Arr(<<Obj([message |-> Str("hello")])>>)])],
      [kind |-> "http", status |-> 200,
       body |-> Obj([choices |-> Arr(<<Obj([message |-> Obj([role |-> Str("assistant")])])>>)])],
      [kind |-> "http", status |-> 200, body |-> Completion(None)],
      [kind |-> "http", status |-> 200, body |-> Completion(Arr(<<Str("part")>>))],
      [kind |-> "http", status |-> 200, body |-> Completion(Str(""))],
      [kind |-> "http", status |-> 200,
       body |-> Completion(Str("I am sorry, I cannot analyze these logs."))],
      [kind |-> "http", status |-> 200,
       body |-> Completion(Str("ROOT CAUSE: x\nFIXES:\n1. y\nPREVENTION: z"))]>>

-----------------------------------------------------------------------------
(* The analyzer: an AIAnalyzer is constructed, then analyze is called.     *)

Init ==
    /\ pc = "new"
    /\ environ \in [NVIDIA_API_KEY : EnvValues, OPENAI_API_KEY : EnvValues]
    /\ key_arg \in ArgValues
    /\ patterns \in Summaries
    /\ sample_errors \in Samples
    /\ api_key = None
    /\ response = None
    /\ posted = <<>>
    /\ result = None
    /\ line = ""
    /\ entry = None
    /\ text = ""
    /\ entries = <<>>
    /\ PipelineIdle
    /\ NormalizeIdle

\* AIAnalyzer.__init__
Construct ==
    /\ pc = "new"
    /\ api_key' = InitApiKey(key_arg, environ)
    /\ pc' = "ready"
    /\ UNCHANGED <<line, entry, text, entries, patterns, environ, key_arg,
                   sample_errors, response, posted, result, fs, output, console, reports,
          calls, msg, normalized>>

\* AIAnalyzer.analyze, the remote side behaving as RemoteOutcomes[i] when it
\* is reached.
Analyze ==
    /\ pc = "ready"
    /\ \E i \in 1..Len(RemoteOutcomes) :
         /\ response' = IF Truthy(api_key) THEN RemoteOutcomes[i] ELSE None
         /\ posted' = IF Posts(api_key, RemoteOutcomes[i])
                      THEN Append(posted, PrepareContext(patterns, sample_errors))
                      ELSE posted
         /\ result' = AnalyzeOf(api_key, patterns, RemoteOutcomes[i])
    /\ pc' = "returned"
    /\ UNCHANGED <<line, entry, text, entries, patterns, environ, key_arg,
                   api_key, sample_errors, fs, output, console, reports,
                   calls, msg, normalized>>

Next == Construct \/ Analyze

Spec == Init /\ [][Next]_vars

-----------------------------------------------------------------------------
(* The parser: _parse_line is called on a line, or a file is written line  *)
(* by line and read with parse_file.                                       *)

\* Number of lines written to the file.
MaxLines == 2

LineStamps ==
    {"", "2024-01-15 14:23:15 ", "2024-01-15 14:23:15", "2024-01-15\t 14:23:15  ",
     "2024-1-15 14:23:15 ", "Jan 15 14:23:15 ", "Jan  5 14:23:15 ", "June 15 14:23:15 ",
     "[2024-01-15 14:23:15] ", "[2024-01-15 14:23:15]", "[", "x "}

LineLevels == {"ERROR", "error", "Warn", "Note", "e_1", "42", ""}

LineSeparators == {":", ": ", ":\t ", " ", "] ", "]: ", "]:", " : ", ""}

LineMessages ==
    {"Message2", "fix later", "", " ", "a: b", "x\ny",
     "Connection refused to database at db.example.com:5432"}

FileBodies == {"", "ERROR: a", "2024-01-15 14:23:15 warn: b c", "plain text", "[ERROR] x"}

LeftPads == {"", " \t"}

\* What ends a line of the file: trailing whitespace and a line end, or
\* nothing more (the last line of a file without a final newline).
LineTails == {"\n", " \r\n", "", " \t"}

\* The variables of the analyzer and of the detector, not in use.
AnalyzerIdle ==
    /\ environ = [NVIDIA_API_KEY |-> None, OPENAI_API_KEY |-> None]
    /\ key_arg = None
    /\ api_key = None
    /\ sample_errors = <<>>
    /\ response = None
    /\ posted = <<>>
    /\ result = None

InitParser ==
    /\ pc = "idle"
    /\ line = ""
    /\ entry = None
    /\ text = ""
    /\ entries = <<>>
    /\ patterns = None
    /\ AnalyzerIdle
    /\ PipelineIdle
    /\ NormalizeIdle

\* A call of LogParser._parse_line on a line put together from a stamp, a
\* level, a separator and a message.
ParseLine ==
    /\ pc = "idle"
    /\ \E st \in LineStamps, lv \in LineLevels, sp \in LineSeparators, ms \in LineMessages :
         /\ line' = st \o lv \o sp \o ms
         /\ entry' = ParseLineOf(st \o lv \o sp \o ms)
    /\ pc' = "line"
    /\ UNCHANGED <<text, entries, patterns, environ, key_arg, api_key,
                   sample_errors, response, posted, result, fs, output, console, reports,
          calls, msg, normalized>>

\* One more line is written to the log file; a line without a line end is
\* the last one.
WriteLine ==
    /\ pc \in {"idle", "writing"}
    /\ Len(LinesOf(Universal(text))) < MaxLines
    /\ \E lp \in LeftPads, b \in FileBodies, lt \in LineTails :
         /\ text' = text \o lp \o b \o lt
         /\ pc' = IF StrContains(lt, "\n") THEN "writing" ELSE "closed"
    /\ UNCHANGED <<line, entry, entries, patterns, environ, key_arg, api_key,
                   sample_errors, response, posted, result, fs, output, console, reports,
          calls, msg, normalized>>

\* LogParser.parse_file on the file written so far.
ParseFile ==
    /\ pc \in {"idle", "writing", "closed"}
    /\ entries' = ParseFileOf(text)
    /\ pc' = "parsed"
    /\ UNCHANGED <<line, entry, text, patterns, environ, key_arg, api_key,
                   sample_errors, response, posted, result, fs, output, console, reports,
          calls, msg, normalized>>

NextParser == ParseLine \/ WriteLine \/ ParseFile

SpecParser == InitParser /\ [][NextParser]_vars

-----------------------------------------------------------------------------
(* The detector: a caller builds a list of entries and calls analyze.      *)

\* Number of entries in the list.
MaxEntries == 3

EntryLevels == {"ERROR", "CRITICAL", "FATAL", "WARN", "Error"}

EntryMessages == {"Connection to server 123 failed", "Timeout"}

\* The timestamp given to the n-th entry.
StampOf(n) == "14:00:0" \o ToString(n)

InitDetector ==
    /\ pc = "collect"
    /\ entries = <<>>
    /\ patterns = None
    /\ line = ""
    /\ entry = None
    /\ text = ""
    /\ AnalyzerIdle
    /\ PipelineIdle
    /\ NormalizeIdle

\* The caller appends a LogEntry to the list.
AddEntry ==
    /\ pc = "collect"
    /\ Len(entries) < MaxEntries
    /\ \E lv \in EntryLevels, ms \in EntryMessages :
         entries' = Append(entries, LogEntry(StampOf(Len(entries) + 1), lv, ms, "raw"))
    /\ UNCHANGED <<pc, line, entry, text, patterns, environ, key_arg, api_key,
                   sample_errors, response, posted, result, fs, output, console, reports,
          calls, msg, normalized>>

\* Mutant of Detect: the error-level subset is kept in the caller's list.
Detect_InPlace ==
    /\ pc = "collect"
    /\ patterns' = DetectorAnalyze(entries)
    /\ entries' = ErrorsOf(entries)
    /\ pc' = "analyzed"
    /\ UNCHANGED <<line, entry, text, environ, key_arg, api_key,
                   sample_errors, response, posted, result, fs, output, console, reports,
          calls, msg, normalized>>

\* PatternDetector.analyze on the list.
Detect ==
    /\ pc = "collect"
    /\ patterns' = DetectorAnalyze(entries)
    /\ pc' = "analyzed"
    /\ UNCHANGED <<line, entry, text, entries, environ, key_arg, api_key,
                   sample_errors, response, posted, result, fs, output, console, reports,
          calls, msg, normalized>>

NextDetector == AddEntry \/ Detect

SpecDetector == InitDetector /\ [][NextDetector]_vars

-----------------------------------------------------------------------------
(* The detector on long lists: the caller holds a list whose levels and     *)
(* messages repeat in a fixed order, and calls analyze on it twice.         *)

\* Number of entries in a long list.
MaxStream == 61

StreamMessages ==
    <<"Connection to server 123 failed",
      "Connection to server 456 failed",
      "Timeout",
      "Disk /dev/sda1 is 97% full",
      "worker 7 killed (OOM)",
      "Permission denied for /var/log/app.log",
      "request 0123456789abcdef aborted",
      "Unhandled exception in billing.InvoiceService.render (InvoiceService.java:214): state 3 is stale",
      "cache miss for key user_42",
      "retry 3 of 5 after 250ms",
      "retry 1 of 12 after 250ms",
      "Timeout after 30",
      "Timeout after 4500",
      "cache miss for key user_43">>

\* The order in which the messages of a list repeat (indices of
\* StreamMessages).
MessageOrders ==
    {<<1>>, <<1, 2>>, <<8, 3>>, <<3, 4, 5, 5, 6, 7, 9, 1, 9, 9, 4, 2, 8>>,
     <<10, 12, 14, 11, 13, 9, 11>>}

\* The order in which the levels of a list repeat.
LevelOrders ==
    {<<"ERROR">>, <<"ERROR", "CRITICAL", "FATAL">>, <<"INFO", "ERROR", "WARN", "FATAL", "FATAL">>,
     <<"INFO", "error">>}

\* The item of a repeating order at position n.
Cyclic(order, n) == order[((n - 1) % Len(order)) + 1]

StreamEntry(lo, mo, n) ==
    LogEntry(StampOf(n), Cyclic(lo, n), StreamMessages[Cyclic(mo, n)], "raw")

StreamOf(lo, mo, n) == [i \in 1..n |-> StreamEntry(lo, mo, i)]

InitStream ==
    /\ pc = "collect"
    /\ entries \in {StreamOf(lo, mo, n) : lo \in LevelOrders, mo \in MessageOrders,
                                          n \in 0..MaxStream}
    /\ patterns = None
    /\ line = ""
    /\ entry = None
    /\ text = ""
    /\ AnalyzerIdle
    /\ PipelineIdle
    /\ NormalizeIdle

\* A second call of PatternDetector.analyze on the same list.
DetectAgain ==
    /\ pc = "analyzed"
    /\ patterns' = DetectorAnalyze(entries)
    /\ pc' = "analyzed again"
    /\ UNCHANGED <<line, entry, text, entries, environ, key_arg, api_key,
                   sample_errors, response, posted, result, fs, output, console, reports,
          calls, msg, normalized>>

NextStream == Detect \/ DetectAgain

SpecStream == InitStream /\ [][NextStream]_vars

-----------------------------------------------------------------------------
(* The pipeline: analyze_logs on a path of the file system, and demo_mode,  *)
(* which writes the sample log and calls analyze_logs on it.                *)

\* The sample log of demo_mode.
SampleLog ==
    "2024-01-15 14:23:15 ERROR: Connection refused to database at db.example.com:5432\n"
    \o "2024-01-15 14:23:16 ERROR: Failed to fetch user data from database\n"
    \o "2024-01-15 14:23:17 ERROR: API request to /api/users failed with status 500\n"
    \o "2024-01-15 14:23:18 ERROR: Connection refused to database at db.example.com:5432\n"
    \o "2024-01-15 14:23:19 ERROR: Failed to fetch user data from database\n"
    \o "2024-01-15 14:23:20 ERROR: API request to /api/products failed with status 500\n"
    \o "2024-01-15 14:24:00 INFO: Database connection restored\n"
    \o "2024-01-15 14:24:01 INFO: Service recovered, processing requests\n"

\* Number of errors of the sample passed to the analyzer.
SampleLimit == 10

\* What the path may hold: nothing, something open() fails on (no read
\* permission, a directory), or a file.
PathKinds == {"missing", "unreadable", "file"}

\* Contents of the file.
LogTexts ==
    {"", "\n  \t\n\n", "service started",
     "2024-01-15 14:23:15 ERROR: disk 3 failed\n\n2024-01-15 14:23:16 INFO: ok\n",
     "ERROR: a\nFATAL: b\n[ERROR] c\nERROR: a"}

\* Values of the output argument.
OutputValues == {None, Str("report.md")}

\* What ReportGenerator is given for a report.
Report(kind, file, p, analysis) ==
    [kind |-> kind, output_file |-> file, patterns |-> p, ai_analysis |-> analysis]

\* ReportGenerator.generate_terminal_report, then generate_markdown_report
\* when an output file was asked for.
ReportsOf(out, p, analysis) ==
    IF Truthy(out)
    THEN <<Report("terminal", None, p, analysis), Report("markdown", out, p, analysis)>>
    ELSE <<Report("terminal", None, p, analysis)>>

InitPipeline ==
    /\ pc = "start"
    /\ fs \in PathKinds
    /\ text \in (IF fs = "file" THEN LogTexts ELSE {""})
    /\ output \in OutputValues
    /\ environ \in [NVIDIA_API_KEY : EnvValues, OPENAI_API_KEY : EnvValues]
    /\ console = <<>>
    /\ reports = <<>>
    /\ calls = <<>>
    /\ NormalizeIdle
    /\ line = ""
    /\ entry = None
    /\ entries = <<>>
    /\ patterns = None
    /\ key_arg = None
    /\ api_key = None
    /\ sample_errors = <<>>
    /\ response = None
    /\ posted = <<>>
    /\ result = None

\* The contexts AIAnalyzer.analyze sends with requests.post: one, when
\* there is a key and the request is reached, whatever comes of it.
RequestsOf_Retry(key, p, sample, r) ==
    IF ~Posts(key, r) THEN <<>>
    ELSE IF r.kind = "http" /\ r.status = StatusOk THEN <<PrepareContext(p, sample)>>
    ELSE <<PrepareContext(p, sample), PrepareContext(p, sample)>>

RequestsOf(key, p, sample, r) ==
    IF Posts(key, r) THEN <<PrepareContext(p, sample)>> ELSE <<>>

\* The calls of analyze_logs from parse_file to the return of
\* AIAnalyzer.analyze, with one requests.post for each request sent.
CallsToAnalysis(requests) ==
    <<"LogParser.parse_file", "PatternDetector.analyze", "AIAnalyzer.analyze">>
    \o [i \in 1..Len(requests) |-> "requests.post"]
    \o <<"AIAnalyzer.analyze returned">>

\* The calls of the reports.
CallsToReports(out) ==
    IF Truthy(out) THEN <<"generate_terminal_report", "generate_markdown_report">>
    ELSE <<"generate_terminal_report">>

\* The steps of analyze_logs from the detector on, for the parsed entries es,
\* the remote side behaving as r when it is reached. A value that is not a
\* str is handed to the terminal report as it is; whether rendering it
\* raises is not decided by this program, so both outcomes are possible.
Triage(es, out, r) ==
    /\ entries' = es
    /\ patterns' = DetectorAnalyze(es)
    /\ sample_errors' = Prefix(ErrorsOf(es), SampleLimit)
    /\ api_key' = InitApiKey(None, environ)
    /\ response' = IF Truthy(api_key') THEN r ELSE None
    /\ posted' = posted \o RequestsOf(api_key', patterns', sample_errors', r)
    /\ result' = AnalyzeOf(api_key', patterns', r)
    /\ \/ /\ reports' = reports \o ReportsOf(out, patterns', result')
          /\ console' = console \o <<"Analyzing", "Parsed", "Detecting patterns",
                                     "Running AI analysis", "Report">>
          /\ calls' = calls
                      \o CallsToAnalysis(RequestsOf(api_key', patterns', sample_errors', r))
                      \o CallsToReports(out)
          /\ pc' = "returned"
       \/ /\ result'.kind # "str"
          /\ reports' = reports
          /\ console' = console \o <<"Analyzing", "Parsed", "Detecting patterns",
                                     "Running AI analysis">>
          /\ calls' = calls
                      \o CallsToAnalysis(RequestsOf(api_key', patterns', sample_errors', r))
                      \o <<"generate_terminal_report">>
          /\ pc' = "raised"

\* analyze_logs(filepath, output) for a path that holds kind, with content t.
AnalyzeLogsOn(kind, t, out) ==
    IF kind = "missing"
    THEN /\ console' = Append(console, "File not found")
         /\ pc' = "returned"
         /\ UNCHANGED <<entries, patterns, sample_errors, api_key, response, posted,
                        result, reports, calls>>
    ELSE IF kind = "unreadable"
    THEN /\ console' = Append(console, "Analyzing")
         /\ calls' = Append(calls, "LogParser.parse_file")
         /\ pc' = "raised"
         /\ UNCHANGED <<entries, patterns, sample_errors, api_key, response, posted,
                        result, reports>>
    ELSE IF ParseFileOf(t) = <<>>
    THEN /\ console' = console \o <<"Analyzing", "Parsed", "No log entries found">>
         /\ calls' = Append(calls, "LogParser.parse_file")
         /\ pc' = "returned"
         /\ UNCHANGED <<entries, patterns, sample_errors, api_key, response, posted,
                        result, reports>>
    ELSE \E es \in {ParseFileOf(t)} :
           \E i \in 1..Len(RemoteOutcomes) : Triage(es, out, RemoteOutcomes[i])

\* analyze_logs(filepath, output)
AnalyzeLogs ==
    /\ pc = "start"
    /\ AnalyzeLogsOn(fs, text, output)
    /\ UNCHANGED <<line, entry, text, environ, key_arg, fs, output, msg, normalized>>

\* demo_mode: the sample log is written to the temporary file, and
\* analyze_logs is called on that file without an output argument.
DemoMode ==
    /\ pc = "start"
    /\ fs' = "file"
    /\ text' = SampleLog
    /\ output' = None
    /\ AnalyzeLogsOn("file", SampleLog, None)
    /\ UNCHANGED <<line, entry, environ, key_arg, msg, normalized>>

NextPipeline == AnalyzeLogs \/ DemoMode

SpecPipeline == InitPipeline /\ [][NextPipeline]_vars

-----------------------------------------------------------------------------
(* _normalize_message on a message, and again on what it returned.          *)

\* Length of the longest filler put before the rest of a message.
MaxFiller == 101

\* Text that fills a message up to the neighbourhood of the length limit.
FillerText ==
    "queue drained; shard rebalance pending; lease renewal skipped; "
    \o "upstream pool exhausted; waiting on quorum"

\* The lengths of filler: none, short, and from 12 below the longest to it.
FillerLengths == {0, 7} \cup ((MaxFiller - 12)..MaxFiller)

\* How a message goes on behind the filler.
MessageRests ==
    {"", " 42", "12ab", " 12ab", " 1234 left", " deadbeef00x", " deadbeef00 ok",
     " a1b2c3d4e5f6", "7", " N ID 5", " 3f9a77c1;2", "_17 0x1f"}

InitNormalize ==
    /\ pc = "message"
    /\ msg \in {Prefix(FillerText, n) \o r : n \in FillerLengths, r \in MessageRests}
    /\ normalized = <<>>
    /\ line = ""
    /\ entry = None
    /\ text = ""
    /\ entries = <<>>
    /\ patterns = None
    /\ AnalyzerIdle
    /\ PipelineIdle

\* _normalize_message(message)
Normalize ==
    /\ pc = "message"
    /\ normalized' = <<NormalizeMessage(msg)>>
    /\ pc' = "normalized"
    /\ UNCHANGED <<line, entry, text, entries, patterns, environ, key_arg, api_key,
                   sample_errors, response, posted, result, fs, output, console, reports,
                   calls, msg>>

\* _normalize_message on the value the call before returned.
NormalizeAgain ==
    /\ pc = "normalized"
    /\ normalized' = Append(normalized, NormalizeMessage(normalized[Len(normalized)]))
    /\ pc' = "normalized again"
    /\ UNCHANGED <<line, entry, text, entries, patterns, environ, key_arg, api_key,
                   sample_errors, response, posted, result, fs, output, console, reports,
                   calls, msg>>

NextNormalize == Normalize \/ NormalizeAgain

SpecNormalize == InitNormalize /\ [][NextNormalize]_vars

-----------------------------------------------------------------------------
(* Properties of the analyzer, checked under Spec.                         *)

\* The three section markers of the analysis text.
HasMarkers(t) ==
    StrContains(t, "ROOT CAUSE:") /\ StrContains(t, "FIXES:") /\ StrContains(t, "PREVENTION:")

\* The body is a JSON object whose choices[0].message.content exists.
HasContent(b) ==
    /\ b.kind = "obj" /\ "choices" \in DOMAIN b.val
    /\ b.val.choices.kind = "arr" /\ Len(b.val.choices.val) > 0
    /\ b.val.choices.val[1].kind = "obj" /\ "message" \in DOMAIN b.val.choices.val[1].val
    /\ b.val.choices.val[1].val.message.kind = "obj"
    /\ "content" \in DOMAIN b.val.choices.val[1].val.message.val

\* The content of a body that has one.
BodyContent(b) == b.val.choices.val[1].val.message.val.content

\* The remote request was made and did not give an answer text: no response
\* (exception, timeout), a status other than 200, or a 200 body that is not
\* JSON or holds no text at choices[0].message.content.
RemoteFailed ==
    /\ Truthy(api_key)
    /\ \/ response.kind # "http"
       \/ response.status # 200
       \/ ~HasContent(response.body)
       \/ BodyContent(response.body).kind # "str"

\* The remote request was made and failed in a way the code falls back on:
\* as RemoteFailed, but a 200 body with a content of any JSON type counts
\* as an answer.
RemoteFellBack ==
    /\ Truthy(api_key)
    /\ \/ response.kind # "http"
       \/ response.status # 200
       \/ ~HasContent(response.body)

\* C1: whenever the remote request fails (non-200 status, exception, timeout,
\* HTTP 200 with a malformed or incomplete body), analyze returns exactly the
\* text _fallback_analysis gives for the same summary.
C1_FailureReturnsFallbackText ==
    (pc = "returned" /\ RemoteFailed)
        => (result.kind = "str" /\ result.val = FallbackAnalysis(patterns))

\* C2 as stated: on every path (no credential, remote success, remote
\* failure) the returned text holds the three section markers.
C2_MarkersOnEveryPath ==
    pc = "returned" => (result.kind = "str" /\ HasMarkers(result.val))

\* C2 as amended: without a credential, and whenever the remote request
\* fails with an exception, a non-200 status or a 200 body that has no
\* choices[0].message.content, the returned text holds the three section
\* markers; otherwise the returned value is that content, unchanged.
C2_MarkersOnFallbackPaths ==
    pc = "returned" =>
        IF ~Truthy(api_key) \/ RemoteFellBack
        THEN result.kind = "str" /\ HasMarkers(result.val)
        ELSE result = BodyContent(response.body)

\* The remote request failed with a non-200 status and the fallback text,
\* which holds the markers, was returned.
C2_Witness ==
    /\ pc = "returned" /\ Truthy(api_key)
    /\ response.kind = "http" /\ response.status = 500
    /\ result.kind = "str" /\ HasMarkers(result.val)

\* Case-insensitive substring: some substring of s, lower-cased, is word.
Mentions(s, word) ==
    \E i \in 1..(Len(s) - Len(word) + 1) :
        StrLower(SubSeq(s, i, i + Len(word) - 1)) = word

\* The branch of the fallback analyzer that the precedence rules of C3 give
\* for a top-ranked signature `top`, as the name of the branch.
BranchByRule(count, top) ==
    IF count = 0 THEN "healthy"
    ELSE IF Mentions(top, "connection") \/ Mentions(top, "refused") THEN "connectivity"
    ELSE IF Mentions(top, "timeout") THEN "latency"
    ELSE IF Mentions(top, "memory") \/ Mentions(top, "oom") THEN "memory"
    ELSE IF Mentions(top, "permission") \/ Mentions(top, "denied") THEN "permissions"
    ELSE "generic"

\* The branch a fallback text belongs to, by its root-cause sentence.
BranchOfText(t) ==
    IF StrContains(t, "System appears healthy") THEN "healthy"
    ELSE IF StrContains(t, "Network connectivity") THEN "connectivity"
    ELSE IF StrContains(t, "Service timeout") THEN "latency"
    ELSE IF StrContains(t, "Memory exhaustion") THEN "memory"
    ELSE IF StrContains(t, "Permission or authentication") THEN "permissions"
    ELSE IF StrContains(t, "Multiple errors detected") THEN "generic"
    ELSE "none"

\* C3: the fallback analyzer picks its branch from the top-ranked signature
\* alone, case-insensitively and in the fixed precedence healthy,
\* connectivity, latency, memory, permissions, generic; the lower-ranked
\* signatures do not change the text.
C3_FallbackPrecedence ==
    (pc = "returned" /\ (~Truthy(api_key) \/ RemoteFellBack)) =>
        /\ result.kind = "str"
        /\ BranchOfText(result.val) =
               BranchByRule(patterns.error_count,
                            IF Len(patterns.top_errors) > 0
                            THEN patterns.top_errors[1][1] ELSE "")
        /\ result.val = FallbackAnalysis([patterns EXCEPT !.top_errors = Prefix(@, 1)])

\* The top signature mentions both "connection" and "timeout", a second
\* signature is ranked below it, and the connectivity branch was returned.
C3_Witness ==
    /\ pc = "returned" /\ ~Truthy(api_key)
    /\ patterns.error_count > 0 /\ Len(patterns.top_errors) = 2
    /\ Mentions(patterns.top_errors[1][1], "connection")
    /\ Mentions(patterns.top_errors[1][1], "timeout")
    /\ result.kind = "str" /\ BranchOfText(result.val) = "connectivity"

\* Neither environment variable holds a non-empty key.
EnvironEmpty == ~Truthy(environ.NVIDIA_API_KEY) /\ ~Truthy(environ.OPENAI_API_KEY)

C16_NoErrorsIsHealthy ==
    (pc = "returned" /\ (~Truthy(api_key) \/ RemoteFellBack) /\ patterns.error_count = 0) =>
        /\ result.kind = "str"
        /\ StrContains(result.val, "ROOT CAUSE: No errors detected in logs. System appears healthy.")
        /\ result.val = HealthyText

\* The fallback ran on a summary with error_count 0 and a top error
\* 'Connection refused to database', and returned the healthy text.
C16_Witness ==
    /\ pc = "returned" /\ ~Truthy(api_key)
    /\ patterns.error_count = 0
    /\ Len(patterns.top_errors) > 0
    /\ patterns.top_errors[1][1] = "Connection refused to database"
    /\ result = Str(HealthyText)

-----------------------------------------------------------------------------
(* Properties of the line classifier and of parse_file, checked under      *)
(* SpecParser.                                                             *)

\* A line as parse_file passes it: trimmed, and without a line break inside.
IsLine(l) == l # "" /\ Strip(l) = l /\ ~StrContains(l, "\n")

\* C5: on every non-empty trimmed line _parse_line returns one LogEntry that
\* keeps the line as raw; when none of the four patterns matches at position
\* 0 the entry is ("unknown", "INFO", line, line).
C5_ParseLineTotal ==
    (pc = "line" /\ line # "" /\ Strip(line) = line) =>
        /\ entry.kind = "LogEntry"
        /\ entry.raw = line
        /\ (\A i \in 1..Len(PATTERNS(line)) : ~PATTERNS(line)[i].ok)
               => entry = LogEntry("unknown", "INFO", line, line)

\* A non-empty trimmed line that no pattern matches was classified.
C5_Witness ==
    /\ pc = "line" /\ line = "June 15 14:23:15 Warn fix later"
    /\ entry = LogEntry("unknown", "INFO", line, line)

\* '[LEVEL] message': a word in square brackets, then whitespace, no colon.
IsBracketForm(l) ==
    /\ IsLine(l)
    /\ Ch(l, 1) = "["
    /\ Run(l, 2, WordChars) >= 1
    /\ Ch(l, 2 + Run(l, 2, WordChars)) = "]"
    /\ Ch(l, 3 + Run(l, 2, WordChars)) \in SpaceChars

\* C6: a line '[LEVEL] message' is classified with level LEVEL upper-cased.
C6_BracketedLevel ==
    (pc = "line" /\ IsBracketForm(line))
        => entry.level = StrUpper(SubSeq(line, 2, 1 + Run(line, 2, WordChars)))

\* 'YYYY-MM-DD HH:MM:SS' at the start of the line.
HasIsoStamp(l) ==
    /\ Len(l) >= 19
    /\ \A i \in {1, 2, 3, 4, 6, 7, 9, 10, 12, 13, 15, 16, 18, 19} : Ch(l, i) \in DigitChars
    /\ Ch(l, 5) = "-" /\ Ch(l, 8) = "-" /\ Ch(l, 11) = " "
    /\ Ch(l, 14) = ":" /\ Ch(l, 17) = ":"

\* A word that starts at position p and is followed by a colon and at least
\* one blank, with text behind them.
HasLevelColon(l, p) ==
    /\ Run(l, p, WordChars) >= 1
    /\ Ch(l, p + Run(l, p, WordChars)) = ":"
    /\ Run(l, p + Run(l, p, WordChars) + 1, {" ", "\t"}) >= 1

\* The word that starts at position p.
WordAt(l, p) == SubSeq(l, p, p + Run(l, p, WordChars) - 1)

\* What follows the word at p, its colon and the blanks behind the colon.
AfterLevelColon(l, p) ==
    SubSeq(l, p + Run(l, p, WordChars) + 1
              + Run(l, p + Run(l, p, WordChars) + 1, {" ", "\t"}), Len(l))

\* 'YYYY-MM-DD HH:MM:SS LEVEL: message'
IsIsoForm(l) == IsLine(l) /\ HasIsoStamp(l) /\ Ch(l, 20) = " " /\ HasLevelColon(l, 21)

\* C7: a line 'YYYY-MM-DD HH:MM:SS LEVEL: message' gives the date-time text
\* as timestamp, the LEVEL token upper-cased as level ("error" gives
\* "ERROR") and the rest of the line behind the colon and the whitespace as
\* message.
C7_IsoLineSplit ==
    (pc = "line" /\ IsIsoForm(line)) =>
        /\ entry.timestamp = SubSeq(line, 1, 19)
        /\ entry.level = StrUpper(WordAt(line, 21))
        /\ WordAt(line, 21) = "error" => entry.level = "ERROR"
        /\ \A i \in 1..Len(entry.level) : Ch(entry.level, i) \notin LowerChars
        /\ entry.message = AfterLevelColon(line, 21)

\* An ISO line with a lower-case level was classified.
C7_Witness ==
    /\ pc = "line" /\ line = "2024-01-15 14:23:15 error: fix later"
    /\ entry = LogEntry("2024-01-15 14:23:15", "ERROR", "fix later", line)

\* 'WORD: message': the line starts with a word followed by ': '.
IsWordColonForm(l) ==
    IsLine(l) /\ HasLevelColon(l, 1) /\ Ch(l, 2 + Run(l, 1, WordChars)) = " "

\* C8: a line that starts with a word followed by ': ' gives timestamp
\* "unknown", the word upper-cased as level, whatever the word is ("Note: fix
\* later" gives "NOTE"), and the remainder of the line, behind the colon and
\* the whitespace, as message.
C8_WordColonLine ==
    (pc = "line" /\ IsWordColonForm(line)) =>
        /\ entry.timestamp = "unknown"
        /\ entry.level = StrUpper(WordAt(line, 1))
        /\ entry.message = AfterLevelColon(line, 1)
        /\ line = "Note: fix later" => (entry.level = "NOTE" /\ entry.message = "fix later")

\* "Note: fix later" was classified.
C8_Witness ==
    /\ pc = "line" /\ line = "Note: fix later"
    /\ entry = LogEntry("unknown", "NOTE", "fix later", line)

\* The lines of the file that are not blank, as the file object gives them.
NonBlankLines(t) == SelectSeq(LinesOf(Universal(t)), LAMBDA l : Strip(l) # "")

\* C9 as stated: the raw of every entry of parse_file is its input line with
\* only the trailing whitespace removed, and no message is empty.
C9_RawKeepsLeadingWhitespace ==
    pc = "parsed" =>
        /\ Len(entries) = Len(NonBlankLines(text))
        /\ \A i \in 1..Len(entries) :
               /\ entries[i].raw = RStrip(NonBlankLines(text)[i])
               /\ entries[i].message # ""

\* C9 as amended: the raw of every entry of parse_file is its input line
\* with the leading and the trailing whitespace removed, and no message is
\* empty.
C9_RawIsStrippedLine ==
    pc = "parsed" =>
        /\ Len(entries) = Len(NonBlankLines(text))
        /\ \A i \in 1..Len(entries) :
               /\ entries[i].raw = Strip(NonBlankLines(text)[i])
               /\ entries[i].message # ""

\* A file whose second line is indented and ends in whitespace was parsed.
C9_Witness ==
    /\ pc = "parsed"
    /\ text = "plain text\n \tERROR: a \r\n"
    /\ Len(entries) = 2 /\ entries[2].raw = "ERROR: a"

-----------------------------------------------------------------------------
(* Properties of the detector, checked under SpecDetector.                 *)

\* The positions of the entries whose level is lv.
WithLevel(es, lv) == {i \in 1..Len(es) : es[i].level = lv}

\* C10: total_entries is the number of entries, level_counts the tally of
\* the entries by level, taken verbatim, and error_count the number of
\* entries whose level is exactly ERROR, CRITICAL or FATAL.
C10_Counts ==
    pc = "analyzed" =>
        /\ patterns.total_entries = Len(entries)
        /\ DOMAIN patterns.level_counts = {entries[i].level : i \in 1..Len(entries)}
        /\ \A lv \in DOMAIN patterns.level_counts :
               patterns.level_counts[lv] = Cardinality(WithLevel(entries, lv))
        /\ patterns.error_count =
               Cardinality(WithLevel(entries, "ERROR") \cup WithLevel(entries, "CRITICAL")
                           \cup WithLevel(entries, "FATAL"))

\* A list with an ERROR, a WARN and an Error entry gave error_count 1.
C10_Witness ==
    /\ pc = "analyzed" /\ Len(entries) = 3
    /\ entries[1].level = "ERROR" /\ entries[2].level = "WARN" /\ entries[3].level = "Error"
    /\ patterns.error_count = 1
    /\ patterns.level_counts = [ERROR |-> 1, WARN |-> 1, Error |-> 1]

-----------------------------------------------------------------------------
(* Properties of the detector on long lists, checked under SpecStream.     *)

\* The positions of the error-level entries of a list.
ErrorPositions(es) == {i \in 1..Len(es) : es[i].level \in {"ERROR", "CRITICAL", "FATAL"}}

\* The signatures of the entries of a list, position by position.
SignatureList(es) == [i \in 1..Len(es) |-> NormalizeMessage(es[i].message)]

\* The positions of the error-level entries with signature sig.
Occurrences(es, sigs, sig) == {i \in ErrorPositions(es) : sigs[i] = sig}

\* The pairs top are the n most frequent signatures of the error entries of
\* es, whose signatures are sigs: all of different signatures and as many as
\* there are up to n; each count is the number of error entries with that
\* signature; a signature comes before every signature of smaller count and
\* before every signature of the same count that first occurs later, whether
\* that one is in the list or left out.
IsRanking(top, es, sigs, n) ==
    \E all \in {{sigs[i] : i \in ErrorPositions(es)}} :
      \E first \in {[g \in all |-> Least(Occurrences(es, sigs, g))]} :
        \E count \in {[g \in all |-> Cardinality(Occurrences(es, sigs, g))]} :
          /\ Len(top) = (IF Cardinality(all) < n THEN Cardinality(all) ELSE n)
          /\ \A i \in 1..Len(top) : top[i][1] \in all /\ top[i][2] = count[top[i][1]]
          /\ \A i \in 1..Len(top) :
               \A g \in all \ {top[k][1] : k \in 1..i} :
                  \/ count[top[i][1]] > count[g]
                  \/ count[top[i][1]] = count[g] /\ first[top[i][1]] < first[g]

\* C11: top_errors has at most 5 pairs (signature, count); the counts do not
\* increase along the list; each count is the number of error entries with
\* that signature; of two signatures with the same count the one that occurs
\* first in the entries comes first, also where the list is cut off.
C11_TopErrors ==
    pc = "analyzed" =>
        \E sigs \in {SignatureList(entries)} :
            /\ Len(patterns.top_errors) <= 5
            /\ \A i \in 1..(Len(patterns.top_errors) - 1) :
                    patterns.top_errors[i][2] >= patterns.top_errors[i + 1][2]
            /\ IsRanking(patterns.top_errors, entries, sigs, 5)

\* More than 5 signatures, the fifth pair tied with a signature that is left
\* out, and a pair that comes before one whose signature occurred earlier.
C11_Witness ==
    /\ pc = "analyzed"
    /\ patterns.unique_errors > 5
    /\ Len(patterns.top_errors) = 5
    /\ LET top  == patterns.top_errors
           sigs == SignatureList(entries)
       IN  /\ \E i \in ErrorPositions(entries) :
                /\ \A k \in 1..5 : top[k][1] # sigs[i]
                /\ Cardinality(Occurrences(entries, sigs, sigs[i])) = top[5][2]
           /\ top[1][2] > top[5][2]
           /\ \E k \in 1..4 : Least(Occurrences(entries, sigs, top[k][1]))
                               > Least(Occurrences(entries, sigs, top[k + 1][1]))

\* Texts with gaps for numbers (the pieces around the gaps), and numbers.
NumberedTexts ==
    {<<"Connection to server ", " failed">>, <<"retry ", " of ", " after 250ms">>,
     <<"Timeout after ", "">>}

Numbers == {"1", "3", "5", "12", "30", "123", "456", "4500"}

\* The text with its gaps filled, one number per gap.
Filled(t, ns) == Concat([i \in 1..(2 * Len(t) - 1) |->
                            IF i % 2 = 1 THEN t[(i + 1) \div 2] ELSE ns[i \div 2]])

\* Message a is text t with numbers in its gaps.
FitsText(t, a) ==
    /\ Prefix(a, Len(t[1])) = t[1]
    /\ \E ns \in [1..(Len(t) - 1) -> Numbers] : Filled(t, ns) = a

\* The messages of the error-level entries of a list.
ErrorMessages(es) == {es[i].message : i \in ErrorPositions(es)}

\* C12: two messages that differ only in the values of word-bounded digit
\* runs have the same signature, the message with 'N' for each such run, and
\* top_errors has no two pairs for them: one pair stands for both, with a
\* count of at least the number of error entries with either message.
C12_DigitRunsCollapse ==
    pc = "analyzed" =>
        \A t \in NumberedTexts :
          \A a, b \in {x \in ErrorMessages(entries) : FitsText(t, x)} :
            /\ NormalizeMessage(a) = Filled(t, [i \in 1..(Len(t) - 1) |-> "N"])
            /\ NormalizeMessage(b) = NormalizeMessage(a)
            /\ Cardinality({k \in 1..Len(patterns.top_errors) :
                              patterns.top_errors[k][1] = NormalizeMessage(a)}) <= 1
            /\ \A k \in 1..Len(patterns.top_errors) :
                 patterns.top_errors[k][1] = NormalizeMessage(a)
                   => patterns.top_errors[k][2]
                        >= Cardinality({i \in ErrorPositions(entries) :
                                          entries[i].message \in {a, b}})

\* Errors with 'Connection to server 123 failed' and with 'Connection to
\* server 456 failed' were analyzed and share the one pair of top_errors.
C12_Witness ==
    /\ pc = "analyzed"
    /\ {"Connection to server 123 failed", "Connection to server 456 failed"}
         \subseteq ErrorMessages(entries)
    /\ patterns.top_errors = <<<<"Connection to server N failed", patterns.error_count>>>>
    /\ patterns.error_count >= 2

\* The position of the i-th error-level entry of a list.
NthError(es, i) ==
    CHOOSE p \in ErrorPositions(es) : Cardinality({q \in ErrorPositions(es) : q <= p}) = i

\* C13: timeline has at most 20 items, one for each of the first 20
\* error-level entries in input order: item i holds the timestamp of the i-th
\* error-level entry and the first 80 characters of its message; no entry of
\* another level appears in it.
C13_Timeline ==
    pc = "analyzed" =>
        /\ Len(patterns.timeline) <= 20
        /\ Len(patterns.timeline) = (IF Cardinality(ErrorPositions(entries)) < 20
                                     THEN Cardinality(ErrorPositions(entries)) ELSE 20)
        /\ \A i \in 1..Len(patterns.timeline) :
             \E e \in {entries[NthError(entries, i)]} :
               /\ patterns.timeline[i].time = e.timestamp
               /\ patterns.timeline[i].message
                    = (IF Len(e.message) <= 80 THEN e.message ELSE SubSeq(e.message, 1, 80))
               /\ \A q \in 1..Len(entries) :
                    entries[q].timestamp = patterns.timeline[i].time
                      => entries[q].level \in {"ERROR", "CRITICAL", "FATAL"}

\* More than 20 error-level entries with entries of other levels between
\* them, and an item whose message was cut to 80 characters.
C13_Witness ==
    /\ pc = "analyzed"
    /\ patterns.error_count > 20
    /\ Len(patterns.timeline) = 20
    /\ entries[1].level = "INFO"
    /\ \E i \in 1..20 : /\ Len(patterns.timeline[i].message) = 80
                        /\ Len(entries[NthError(entries, i)].message) > 80
    /\ \E q \in 1..Len(entries) : /\ q < NthError(entries, 20)
                                  /\ entries[q].level = "WARN"

\* The record of the k-th run of 10 error-level entries of a list.
TenRecord(es, k) ==
    [count |-> 10,
     first |-> es[NthError(es, 10 * k - 9)].timestamp,
     last  |-> es[NthError(es, 10 * k)].timestamp]

\* The number of runs of 10 error-level entries that are followed by a
\* further one, among n error-level entries.
FollowedRuns(n) == IF n = 0 THEN 0 ELSE (n - 1) \div 10

\* C14: the bucket in progress at the end of the input yields no record. The
\* cascades are the records of the runs of 10 error-level entries that are
\* followed by a further one, the first 5 of them: for 12 error-level entries
\* the one record {10, first = E1.timestamp, last = E10.timestamp}; no record
\* ends at the last error-level entry.
C14_TrailingBucketDropped ==
    pc = "analyzed" =>
        \E n \in {Cardinality(ErrorPositions(entries))} :
            /\ patterns.cascades
                 = [k \in 1..(IF FollowedRuns(n) < 5 THEN FollowedRuns(n) ELSE 5)
                      |-> TenRecord(entries, k)]
            /\ n = 12 => patterns.cascades
                           = <<[count |-> 10,
                                first |-> entries[NthError(entries, 1)].timestamp,
                                last  |-> entries[NthError(entries, 10)].timestamp]>>
            /\ \A k \in 1..Len(patterns.cascades) :
                 patterns.cascades[k].last # entries[NthError(entries, n)].timestamp

\* 12 error-level entries were analyzed: one record, for the first 10.
C14_Witness ==
    /\ pc = "analyzed"
    /\ patterns.error_count = 12
    /\ Len(patterns.cascades) = 1
    /\ patterns.cascades[1].count = 10
    /\ patterns.cascades[1].first = entries[NthError(entries, 1)].timestamp
    /\ patterns.cascades[1].last = entries[NthError(entries, 10)].timestamp

\* C19: every bucket that the pass brings to size 10 yields its record, up
\* to 5 records, also when the input ends with it (10, 20, 30, ... error-level
\* entries).
C19_FullBucketEmitted ==
    pc = "analyzed" =>
        \A k \in 1..5 :
            10 * k <= Cardinality(ErrorPositions(entries))
              => /\ Len(patterns.cascades) >= k
                 /\ patterns.cascades[k] = TenRecord(entries, k)

\* C20 as stated: every cascade record has a count of at least 3 and less
\* than 10.
C20_CountBelowTen ==
    pc = "analyzed" =>
        \A k \in 1..Len(patterns.cascades) :
            3 <= patterns.cascades[k].count /\ patterns.cascades[k].count < 10

\* C20: every cascade record has a count of exactly 10, and there are at
\* most 5 records.
C20_CountIsTen ==
    pc = "analyzed" =>
        /\ Len(patterns.cascades) <= 5
        /\ \A k \in 1..Len(patterns.cascades) : patterns.cascades[k].count = 10

\* More than 60 error-level entries were analyzed: 5 records.
C20_Witness ==
    /\ pc = "analyzed"
    /\ patterns.error_count > 60
    /\ Len(patterns.cascades) = 5
    /\ patterns.cascades[5].count = 10

PositionOf(es, ts) == CHOOSE p \in 1..Len(es) : es[p].timestamp = ts

\* C21 as stated: between the entry that gives a record its first timestamp
\* and the entry that gives it its last timestamp, the list holds no entry
\* of a non-error level.
C21_ContiguousInInput ==
    pc = "analyzed" =>
        \A k \in 1..Len(patterns.cascades) :
            \A q \in PositionOf(entries, patterns.cascades[k].first)
                     ..PositionOf(entries, patterns.cascades[k].last) :
                entries[q].level \in {"ERROR", "CRITICAL", "FATAL"}

\* C21: a record describes a run of the error subset: its first and last
\* timestamps are those of error-level entries, the first before the last,
\* and exactly count error-level entries lie from the one to the other;
\* entries of other levels between them are passed over.
C21_ContiguousInErrorSubset ==
    pc = "analyzed" =>
        \A k \in 1..Len(patterns.cascades) :
            \E a \in {PositionOf(entries, patterns.cascades[k].first)} :
              \E b \in {PositionOf(entries, patterns.cascades[k].last)} :
                /\ a \in ErrorPositions(entries)
                /\ b \in ErrorPositions(entries)
                /\ a < b
                /\ Cardinality({q \in ErrorPositions(entries) : a <= q /\ q <= b})
                     = patterns.cascades[k].count

\* A record whose run passes over an entry of level INFO.
C21_Witness ==
    /\ pc = "analyzed"
    /\ patterns.cascades # <<>>
    /\ \E q \in 1..Len(entries) :
         /\ PositionOf(entries, patterns.cascades[1].first) < q
         /\ q < PositionOf(entries, patterns.cascades[1].last)
         /\ entries[q].level = "INFO"


\* C22: with fewer than 3 error-level entries cascades is empty; cascades
\* never holds more than 5 records, and they are the first 5 emitted, in the
\* order of emission: record k ends before record k + 1 begins, and the
\* first one begins at the first error-level entry.
C22_FirstFiveInOrder ==
    pc = "analyzed" =>
        /\ Cardinality(ErrorPositions(entries)) < 3 => patterns.cascades = <<>>
        /\ Len(patterns.cascades) <= 5
        /\ patterns.cascades # <<>>
             => patterns.cascades[1].first = entries[NthError(entries, 1)].timestamp
        /\ \A k \in 1..(Len(patterns.cascades) - 1) :
             PositionOf(entries, patterns.cascades[k].last)
               < PositionOf(entries, patterns.cascades[k + 1].first)

\* Six runs of 10 error-level entries are followed by a further one, and
\* the records are those of the first five.
C22_Witness ==
    /\ pc = "analyzed"
    /\ patterns.error_count = 61
    /\ Len(patterns.cascades) = 5
    /\ patterns.cascades[1].first = entries[1].timestamp
    /\ patterns.cascades[5].last = entries[50].timestamp


\* The number of the error-level entry at position p among the error-level
\* entries of a list.
ErrorNumber(es, p) == Cardinality({q \in ErrorPositions(es) : q <= p})

\* C24: for n error-level entries there are min(5, (n - 1) div 10) records,
\* none for n = 0; record k has count 10, its first timestamp is that of
\* error number 10(k-1)+1 and its last that of error number 10k, so the
\* records cover disjoint blocks of the error subset that follow one another.
C24_RecordBlocks ==
    pc = "analyzed" =>
        \E n \in {Cardinality(ErrorPositions(entries))} :
            /\ Len(patterns.cascades)
                 = (IF n = 0 THEN 0
                    ELSE IF (n - 1) \div 10 < 5 THEN (n - 1) \div 10 ELSE 5)
            /\ \A k \in 1..Len(patterns.cascades) :
                 /\ patterns.cascades[k].count = 10
                 /\ ErrorNumber(entries, PositionOf(entries, patterns.cascades[k].first))
                      = 10 * (k - 1) + 1
                 /\ ErrorNumber(entries, PositionOf(entries, patterns.cascades[k].last))
                      = 10 * k
                 /\ entries[PositionOf(entries, patterns.cascades[k].first)].level
                      \in {"ERROR", "CRITICAL", "FATAL"}
                 /\ entries[PositionOf(entries, patterns.cascades[k].last)].level
                      \in {"ERROR", "CRITICAL", "FATAL"}

\* 35 error-level entries among entries of other levels: 3 records.
C24_Witness ==
    /\ pc = "analyzed"
    /\ patterns.error_count = 35
    /\ patterns.total_entries > 35
    /\ Len(patterns.cascades) = 3


RECURSIVE SumOfValues(_, _)
\* The sum of f[x] over the elements x of S.
SumOfValues(f, S) ==
    IF S = {} THEN 0
    ELSE f[CHOOSE x \in S : TRUE]
         + SumOfValues(f, S \ {CHOOSE x \in S : TRUE})

\* The sum of the counts of a list of pairs (key, count).
SumOfCounts(pairs) == SumOfValues([i \in 1..Len(pairs) |-> pairs[i][2]], 1..Len(pairs))

\* C25: in every summary the values of level_counts sum to total_entries;
\* error_count is at most total_entries; unique_errors is at most
\* error_count, and 0 exactly when error_count is 0; top_errors has
\* min(5, unique_errors) pairs; their counts sum to at most error_count, and
\* to error_count when unique_errors is at most 5.
C25_SummaryConsistent ==
    pc = "analyzed" =>
        /\ SumOfValues(patterns.level_counts, DOMAIN patterns.level_counts)
             = patterns.total_entries
        /\ patterns.total_entries = Len(entries)
        /\ patterns.error_count <= patterns.total_entries
        /\ patterns.unique_errors <= patterns.error_count
        /\ (patterns.unique_errors = 0) = (patterns.error_count = 0)
        /\ Len(patterns.top_errors)
             = (IF patterns.unique_errors < 5 THEN patterns.unique_errors ELSE 5)
        /\ SumOfCounts(patterns.top_errors) <= patterns.error_count
        /\ patterns.unique_errors <= 5
             => SumOfCounts(patterns.top_errors) = patterns.error_count

\* A summary of entries of several levels with more than 5 signatures, the
\* 5 top pairs not covering all errors.
C25_Witness ==
    /\ pc = "analyzed"
    /\ Cardinality(DOMAIN patterns.level_counts) > 2
    /\ patterns.unique_errors > 5
    /\ patterns.error_count > patterns.unique_errors
    /\ SumOfCounts(patterns.top_errors) < patterns.error_count

-----------------------------------------------------------------------------
(* Properties of the pipeline, checked under SpecPipeline.                 *)

\* The call of analyze_logs has ended, by a return or by an exception.
PipelineEnded == pc \in {"returned", "raised"}

\* The path gives no input: nothing there, not readable, or no line that is
\* not blank.
NoInput == fs \in {"missing", "unreadable"} \/ NonBlankLines(text) = <<>>

\* C15: when the path does not exist, is unreadable or has no non-blank line,
\* analyze_logs reports the condition and returns normally, without running
\* the detector, calling the analyzer or producing a report; for every other
\* input it returns with a summary, an analysis text and a report.
C15_InputErrorsHalt ==
    PipelineEnded =>
        IF NoInput
        THEN /\ pc = "returned"
             /\ console # <<>>
             /\ console[Len(console)] \in {"File not found", "No log entries found"}
             /\ patterns = None /\ result = None /\ posted = <<>> /\ reports = <<>>
        ELSE /\ pc = "returned"
             /\ patterns # None
             /\ result.kind = "str"
             /\ reports # <<>>

\* C17: on the 8-line sample log of demo_mode, parsing and analysing give
\* total_entries 8, error_count 6, level_counts {ERROR: 6, INFO: 2}, and the
\* first pair of top_errors is the signature of the two 'Connection refused
\* to database at db.example.com:5432' lines, with count 2.
C17_DemoFixture ==
    (PipelineEnded /\ text = SampleLog) =>
        /\ Len(entries) = 8
        /\ patterns.total_entries = 8
        /\ patterns.error_count = 6
        /\ patterns.level_counts = [ERROR |-> 6, INFO |-> 2]
        /\ patterns.top_errors[1] = <<"Connection refused to database at db.example.com:N", 2>>
        /\ \A i \in {1, 4} :
             /\ entries[i].message = "Connection refused to database at db.example.com:5432"
             /\ NormalizeMessage(entries[i].message) = patterns.top_errors[1][1]

\* demo_mode has run to the report.
C17_Witness ==
    /\ pc = "returned"
    /\ text = SampleLog
    /\ patterns.total_entries = 8
    /\ Len(reports) = 1
    /\ reports[1].patterns = patterns

\* The places of call c in a sequence of calls.
PlacesOf(cs, c) == {i \in 1..Len(cs) : cs[i] = c}

\* The calls that generate a report.
ReportCalls == {"generate_terminal_report", "generate_markdown_report"}

\* In a run with a request, the request comes after the return of
\* PatternDetector.analyze (the call before AIAnalyzer.analyze) and carries
\* the context of the full summary; every report comes after the return of
\* AIAnalyzer.analyze and carries the value it returned.
RequestAndReportInOrder ==
    /\ \A i \in PlacesOf(calls, "requests.post") :
         /\ \E d \in PlacesOf(calls, "PatternDetector.analyze") : d < i
         /\ \E a \in PlacesOf(calls, "AIAnalyzer.analyze") : a < i
         /\ patterns = DetectorAnalyze(entries)
         /\ posted[Len(posted)] = PrepareContext(patterns, sample_errors)
    /\ \A i \in 1..Len(calls) :
         calls[i] \in ReportCalls
           => \E a \in PlacesOf(calls, "AIAnalyzer.analyze returned") :
                a < i /\ \A q \in PlacesOf(calls, "requests.post") : q < a
    /\ \A k \in 1..Len(reports) :
         reports[k].ai_analysis = result /\ reports[k].patterns = patterns

\* C23 as stated: in every run of analyze_logs the remote request is made
\* exactly once, after the detector has returned the full summary, and the
\* report is generated only after AIAnalyzer.analyze has returned.
C23_ExactlyOneRequest ==
    PipelineEnded =>
        /\ Cardinality(PlacesOf(calls, "requests.post")) = 1
        /\ Len(posted) = 1
        /\ RequestAndReportInOrder

\* C23: in every run of analyze_logs the remote request is made at most
\* once, also when it fails (no retry), and exactly once when the run
\* reaches the analyzer with a key and the HTTP client can be imported; it
\* is made after the detector has returned the full summary, and the reports
\* are generated after AIAnalyzer.analyze has returned, with its value.
C23_AtMostOneRequest ==
    PipelineEnded =>
        /\ Cardinality(PlacesOf(calls, "requests.post")) = Len(posted)
        /\ Len(posted) <= 1
        /\ (Len(posted) = 1)
             = (/\ PlacesOf(calls, "AIAnalyzer.analyze") # {}
                /\ Truthy(api_key)
                /\ response.kind # "import_error")
        /\ RequestAndReportInOrder

\* A run in which the one request failed with status 500, the fallback text
\* was returned and both reports were generated.
C23_Witness ==
    /\ pc = "returned"
    /\ Len(posted) = 1
    /\ response.kind = "http" /\ response.status = 500
    /\ result = Str(FallbackAnalysis(patterns))
    /\ Len(reports) = 2
    /\ calls = <<"LogParser.parse_file", "PatternDetector.analyze", "AIAnalyzer.analyze",
                 "requests.post", "AIAnalyzer.analyze returned",
                 "generate_terminal_report", "generate_markdown_report">>

-----------------------------------------------------------------------------
(* Properties of _normalize_message, checked under SpecNormalize.          *)

\* The message after the two substitutions, before it is cut.
SubstitutedText(m) ==
    ReSubRun(ReSubRun(m, 1, DigitChars, 1, "N"), 1, HexChars, 8, "ID")

\* The cut at 100 characters falls inside a token: the text is longer, and
\* its characters 100 and 101 are both word characters.
CutInsideToken(t) ==
    Len(t) > 100 /\ Ch(t, 100) \in WordChars /\ Ch(t, 101) \in WordChars

\* C26 as stated: normalizing the normalized message gives the normalized
\* message, for every message, also one that is cut inside a token.
C26_Idempotent ==
    pc = "normalized again" => normalized[2] = normalized[1]

\* C26: normalizing the normalized message gives the normalized message for
\* every message of at most 100 characters, and for every longer one whose
\* cut does not fall inside a token; the first result is never longer than
\* 100 characters.
C26_IdempotentUnlessCutInToken ==
    pc = "normalized again" =>
        /\ Len(normalized[1]) <= 100
        /\ Len(msg) <= 100 => normalized[2] = normalized[1]
        /\ ~CutInsideToken(SubstitutedText(msg)) => normalized[2] = normalized[1]

\* A message of more than 100 characters with a number in it, cut at 100
\* characters between two tokens, was normalized twice.
C26_Witness ==
    /\ pc = "normalized again"
    /\ Len(msg) > 100
    /\ Len(SubstitutedText(msg)) > 100
    /\ ~CutInsideToken(SubstitutedText(msg))
    /\ Len(normalized[1]) = 100
    /\ normalized[1] # Prefix(msg, 100)
    /\ normalized[2] = normalized[1]

====
